---- MODULE Spec2Model ----
(***************************************************************************)
(* KGP_EQ: the per-block update/process cycle of KGP_EQAudioProcessor      *)
(* (PluginProcessor.cpp) and the analyser FIFO (Fifo and                   *)
(* SingleChannelSampleFifo, PluginProcessor.h).                            *)
(***************************************************************************)
EXTENDS Integers, Sequences, FiniteSets, TLC

VARIABLES
    apvts,            \* the seven raw parameter values (one atomic each)
    writes,           \* control-thread parameter writes so far (bounded)
    sampleRate,       \* AudioProcessor::getSampleRate()
    heap,             \* the IIR::Coefficients objects: object id -> content
    lChain, rChain,   \* the two MonoChains
    pc,               \* the statement the audio thread is at
    caller,           \* who called updateFilters: prepareToPlay or processBlock
    readIdx,          \* the next parameter getChainSettings reads
    chainSettings,    \* the local ChainSettings of updateFilters
    buffer,           \* the AudioBuffer handed to processBlock
    trail,            \* the statements executed by the call in progress
    inFlight,         \* the processBlock calls that have not returned
    lastCut,          \* the slope of the last UpdateCutFilter per position
    instants,         \* the parameter vectors held during getChainSettings
    loads,            \* per parameter, the loads the call in progress made
    leftChannelFifo,  \* SingleChannelSampleFifo{ Channel::Left }
    rightChannelFifo, \* SingleChannelSampleFifo{ Channel::Right }
    inst,             \* the SingleChannelSampleFifo the FIFO runs drive
    clock,            \* samples handed to update() so far
    pushes,           \* calls of Fifo::push so far (bounded)
    pulls,            \* calls of Fifo::pull that returned a block
    received,         \* per FIFO, the samples pushNextSampleIntoFifo was given
    pending,          \* the blocks pushed with success and not yet pulled
    lastPush,         \* the last Fifo::push: its argument, result and effect
    lastPull,         \* the last Fifo::pull: its result and effect
    buf,              \* the consumer's block, the argument of getAudioBuffer
    producer,         \* the audio context inside pushNextSampleIntoFifo
    consumer,         \* the control context inside Fifo::pull
    memory,           \* per Filter, its order and its stored sample history
    blocks,           \* whole processBlock calls so far (bounded)
    blockLog,         \* what the stages carried into the latest block
    layouts,          \* the BusesLayout in force: main input and output sets
    query,            \* the last isBusesLayoutSupported call and its answer
    call,             \* the channels the last whole processBlock touched
    cut,              \* the updateFilters call run statement by statement
    filling           \* the positions of bufferToFill update() has written

chainVars == <<apvts, writes, sampleRate, heap, lChain, rChain, pc, caller,
               readIdx, chainSettings, buffer, trail, inFlight, lastCut,
               instants, loads>>

fifoVars == <<leftChannelFifo, rightChannelFifo, inst, clock, pushes, pulls,
              received,
              pending, lastPush, lastPull, buf, producer, consumer>>

blockVars == <<memory, blocks, blockLog>>

hostVars == <<layouts, query, call>>

sideVars == <<blockVars, hostVars, cut, filling>>

vars == <<chainVars, fifoVars, sideVars>>

----------------------------------------------------------------------------
(* Bounds of the model *)

MaxWrites == 2
MaxBlockLen == 2

----------------------------------------------------------------------------
(* enum Slope *)

slope12 == 0
slope24 == 1
slope36 == 2
slope48 == 3

Slopes == {slope12, slope24, slope36, slope48}

(* The parameters of createParameterLayout, in the order getChainSettings
   reads them, with their defaults and the values the control thread writes. *)

ParamOrder ==
    <<"Low-Cut Frequency", "High-Cut Frequency", "Low-Cut Slope",
      "High-Cut Slope", "Peak Frequency", "Peak Gain", "Peak Quality">>

ParamIds == {ParamOrder[k] : k \in 1..Len(ParamOrder)}

createParameterLayout ==
    [p \in ParamIds |->
        CASE p = "Low-Cut Frequency"  -> 20
          [] p = "High-Cut Frequency" -> 20000
          [] p = "Peak Frequency"     -> 750
          [] p = "Peak Gain"          -> 0
          [] p = "Peak Quality"       -> 1
          [] p = "Low-Cut Slope"      -> 0
          [] p = "High-Cut Slope"     -> 0]

ParamValues(p) ==
    CASE p = "Low-Cut Frequency"  -> {20, 1000}
      [] p = "High-Cut Frequency" -> {20000, 5000}
      [] p = "Peak Frequency"     -> {750, 2000}
      [] p = "Peak Gain"          -> {0, 12}
      [] p = "Peak Quality"       -> {1, 2}
      [] p = "Low-Cut Slope"      -> 0..3
      [] p = "High-Cut Slope"     -> 0..3

SampleRates == {44100, 48000}

(* struct ChainSettings, default-constructed *)
DefaultChainSettings ==
    [peakFreq |-> 0, peakGainInDB |-> 0, peakQuality |-> 1,
     lowCutFrequency |-> 0, highCutFrequency |-> 0,
     lowCutSlope |-> slope12, highCutSlope |-> slope12,
     lowCutByPassed |-> FALSE, peakByPassed |-> FALSE, highCutByPassed |-> FALSE]

(* getChainSettings with the loads of "Peak Gain" and "Peak Quality" stored
   in each other's field. *)
LoadParameterSwapped(s, k, v) ==
    CASE k = 1 -> [s EXCEPT !.lowCutFrequency = v]
      [] k = 2 -> [s EXCEPT !.highCutFrequency = v]
      [] k = 3 -> [s EXCEPT !.lowCutSlope = v]
      [] k = 4 -> [s EXCEPT !.highCutSlope = v]
      [] k = 5 -> [s EXCEPT !.peakFreq = v]
      [] k = 6 -> [s EXCEPT !.peakQuality = v]
      [] k = 7 -> [s EXCEPT !.peakGainInDB = v]

(* One load of getChainSettings: the k-th statement stores parameter
   ParamOrder[k] in its field; the slopes go through static_cast<Slope>. *)
LoadParameter(s, k, v) ==
    CASE k = 1 -> [s EXCEPT !.lowCutFrequency = v]
      [] k = 2 -> [s EXCEPT !.highCutFrequency = v]
      [] k = 3 -> [s EXCEPT !.lowCutSlope = v]
      [] k = 4 -> [s EXCEPT !.highCutSlope = v]
      [] k = 5 -> [s EXCEPT !.peakFreq = v]
      [] k = 6 -> [s EXCEPT !.peakGainInDB = v]
      [] k = 7 -> [s EXCEPT !.peakQuality = v]

(* The field of ChainSettings that getChainSettings fills from parameter p. *)
FieldOf(s, p) ==
    CASE p = "Low-Cut Frequency"  -> s.lowCutFrequency
      [] p = "High-Cut Frequency" -> s.highCutFrequency
      [] p = "Low-Cut Slope"      -> s.lowCutSlope
      [] p = "High-Cut Slope"     -> s.highCutSlope
      [] p = "Peak Frequency"     -> s.peakFreq
      [] p = "Peak Gain"          -> s.peakGainInDB
      [] p = "Peak Quality"       -> s.peakQuality

(* No parameter loaded yet. *)
NoLoads == [p \in ParamIds |-> 0]

----------------------------------------------------------------------------
(* The coefficient objects.  Every Filter of a chain owns one Coefficients
   object from its construction; the factory's results are fresh objects
   that live until the update function returns. *)

ChainNames == {"l", "r"}
CutPositions == {"LowCut", "HighCut"}
StageIdx == 0..3

StageObjs ==
    {<<c, p, i>> : c \in ChainNames, p \in CutPositions, i \in StageIdx}
    \cup {<<c, "Peak", 0>> : c \in ChainNames}

NewObjs == {<<"tmp", "new", i>> : i \in StageIdx}

ObjIds == StageObjs \cup NewObjs

Unity == <<"unity">>
Freed == <<"freed">>

(* juce::dsp::ProcessorChain<Filter, Filter, Filter, Filter> of chain c at
   position p, as constructed: nothing bypassed, every Filter holding its own
   pass-through coefficients object. *)
NewCutFilter(c, p) ==
    [filters  |-> [i \in StageIdx |-> [coefficients |-> <<c, p, i>>]],
     bypassed |-> [i \in StageIdx |-> FALSE]]

NewMonoChain(c) ==
    [LowCut  |-> NewCutFilter(c, "LowCut"),
     Peak    |-> [coefficients |-> <<c, "Peak", 0>>],
     HighCut |-> NewCutFilter(c, "HighCut")]

(* FilterDesign::designIIR{Highpass,Lowpass}HighOrderButterworthMethod: one
   second-order set per pair of poles (and a first-order one for odd order). *)
designHighOrderButterworth(kind, frequency, rate, order) ==
    [i \in 0..((order \div 2) + (order % 2) - 1) |->
        <<kind, frequency, rate, order, i>>]

(* IIR::Coefficients::makePeakFilter *)
makePeakFilter(rate, frequency, quality, gainDB) ==
    <<"PK", rate, frequency, quality, gainDB>>

(* The factory's array placed in fresh objects, and their handles. *)
Allocate(h, arr) ==
    [o \in ObjIds |->
        IF o \in NewObjs /\ o[3] \in DOMAIN arr THEN arr[o[3]] ELSE h[o]]

HandlesOf(arr) == [i \in DOMAIN arr |-> <<"tmp", "new", i>>]

(* The array going out of scope. *)
Release(h) == [o \in ObjIds |-> IF o \in NewObjs THEN Freed ELSE h[o]]

(* updateCoefficients exchanging the two objects' contents instead of
   copying the new one over the old one. *)
updateCoefficientsSwap(h, old, new_) ==
    [h EXCEPT ![old] = h[new_], ![new_] = h[old]]

(* updateCoefficients: *old = *new_ *)
updateCoefficients(h, old, new_) == [h EXCEPT ![old] = h[new_]]

(* update<Index>(chain, coefficients); st = [chain, heap] *)
update(Index, st, coefficients) ==
    [chain |-> [st.chain EXCEPT !.bypassed[Index] = FALSE],
     heap  |-> updateCoefficients(st.heap,
                                  st.chain.filters[Index].coefficients,
                                  coefficients[Index])]

(* UpdateCutFilter with a break after every case of the switch. *)
UpdateCutFilterNoFallthrough(st, coefficients, slope) ==
    LET b == [st EXCEPT !.chain.bypassed = [i \in StageIdx |-> TRUE]]
    IN  IF slope \in StageIdx THEN update(slope, b, coefficients) ELSE b

(* UpdateCutFilter(chain, coefficients, slope): the four setBypassed(true),
   then the switch, whose cases fall through. *)
UpdateCutFilter(st, coefficients, slope) ==
    LET b  == [st EXCEPT !.chain.bypassed = [i \in StageIdx |-> TRUE]]
        s3 == IF slope = slope48 THEN update(3, b, coefficients) ELSE b
        s2 == IF slope \in {slope48, slope36}
              THEN update(2, s3, coefficients) ELSE s3
        s1 == IF slope \in {slope48, slope36, slope24}
              THEN update(1, s2, coefficients) ELSE s2
        s0 == IF slope \in {slope48, slope36, slope24, slope12}
              THEN update(0, s1, coefficients) ELSE s1
    IN  s0

(* The factory called with the order slope + 1. *)
designCutHalfOrder(kind, frequency, slope) ==
    designHighOrderButterworth(kind, frequency, sampleRate, slope + 1)

(* The factory call of updateLowCutFilter and updateHighCutFilter. *)
designCut(kind, frequency, slope) ==
    designHighOrderButterworth(kind, frequency, sampleRate, 2 * (slope + 1))

(* The statements of UpdateCutFilter with setBypassed<3>(true) moved to the
   end. *)
UpdateCutFilterBodyLateBypass ==
    <<[op |-> "setBypassed", Index |-> 0], [op |-> "setBypassed", Index |-> 1],
      [op |-> "setBypassed", Index |-> 2],
      [op |-> "switch", Index |-> 0],
      [op |-> "update", Index |-> 3], [op |-> "update", Index |-> 2],
      [op |-> "update", Index |-> 1], [op |-> "update", Index |-> 0],
      [op |-> "setBypassed", Index |-> 3]>>

(* The statements of UpdateCutFilter in program order: the four
   setBypassed<Index>(true), the switch, and the update<Index> calls of its
   cases, which fall through to the end. *)
UpdateCutFilterBody ==
    <<[op |-> "setBypassed", Index |-> 0], [op |-> "setBypassed", Index |-> 1],
      [op |-> "setBypassed", Index |-> 2], [op |-> "setBypassed", Index |-> 3],
      [op |-> "switch", Index |-> 0],
      [op |-> "update", Index |-> 3], [op |-> "update", Index |-> 2],
      [op |-> "update", Index |-> 1], [op |-> "update", Index |-> 0]>>

(* The statement the switch jumps to: case slope48 is update<3>, case slope36
   update<2>, case slope24 update<1>, case slope12 update<0>; past the end
   when no case matches. *)
caseLabel(body, slope) ==
    LET Index == CASE slope = slope48 -> 3
                   [] slope = slope36 -> 2
                   [] slope = slope24 -> 1
                   [] slope = slope12 -> 0
                   [] OTHER           -> -1
        at == {j \in 1..Len(body) : body[j] = [op |-> "update", Index |-> Index]}
    IN  IF at = {} THEN Len(body) + 1 ELSE CHOOSE j \in at : TRUE

(* The shared body with both UpdateCutFilter calls made on the left chain. *)
UpdateBothCutsLeftTwice(h, l, r, kind, frequency, slope) ==
    LET arr == designCut(kind, frequency, slope)
        cs  == HandlesOf(arr)
        h0  == Allocate(h, arr)
        sl  == UpdateCutFilter([chain |-> l, heap |-> h0], cs, slope)
        sr  == UpdateCutFilter([chain |-> sl.chain, heap |-> sl.heap], cs, slope)
    IN  [l |-> sr.chain, r |-> r, heap |-> Release(sr.heap)]

(* The body shared by updateLowCutFilter and updateHighCutFilter: design the
   sequence, apply it to the left chain and then to the right one. *)
UpdateBothCuts(h, l, r, kind, frequency, slope) ==
    LET arr == designCut(kind, frequency, slope)
        cs  == HandlesOf(arr)
        h0  == Allocate(h, arr)
        sl  == UpdateCutFilter([chain |-> l, heap |-> h0], cs, slope)
        sr  == UpdateCutFilter([chain |-> r, heap |-> sl.heap], cs, slope)
    IN  [l |-> sl.chain, r |-> sr.chain, heap |-> Release(sr.heap)]

(* The three update functions on st = [heap, l, r], the members they change,
   and updateFilters once it has its ChainSettings. *)
updateLowCutFilter(st, settings) ==
    LET res == UpdateBothCuts(st.heap, st.l.LowCut, st.r.LowCut, "HP",
                              settings.lowCutFrequency, settings.lowCutSlope)
    IN  [heap |-> res.heap,
         l    |-> [st.l EXCEPT !.LowCut = res.l],
         r    |-> [st.r EXCEPT !.LowCut = res.r]]

updatePeakFilter(st, settings) ==
    LET peakCoefficients == <<"tmp", "new", 0>>
        h0 == Allocate(st.heap, [i \in {0} |->
                 makePeakFilter(sampleRate, settings.peakFreq,
                                settings.peakQuality, settings.peakGainInDB)])
        h1 == updateCoefficients(h0, st.l.Peak.coefficients, peakCoefficients)
        h2 == updateCoefficients(h1, st.r.Peak.coefficients, peakCoefficients)
    IN  [st EXCEPT !.heap = Release(h2)]

updateHighCutFilter(st, settings) ==
    LET res == UpdateBothCuts(st.heap, st.l.HighCut, st.r.HighCut, "LP",
                              settings.highCutFrequency, settings.highCutSlope)
    IN  [heap |-> res.heap,
         l    |-> [st.l EXCEPT !.HighCut = res.l],
         r    |-> [st.r EXCEPT !.HighCut = res.r]]

updateFilters(st, settings) ==
    updateHighCutFilter(
        updatePeakFilter(updateLowCutFilter(st, settings), settings),
        settings)

----------------------------------------------------------------------------
(* The statements of prepareToPlay / processBlock / updateFilters, in order. *)

(* processBlock with lChain.process moved ahead of updateHighCutFilter. *)
NextPcProcessEarly(p, who) ==
    CASE p = "getChainSettings"    -> "updateLowCutFilter"
      [] p = "updateLowCutFilter"  -> "updatePeakFilter"
      [] p = "updatePeakFilter"    ->
            IF who = "processBlock" THEN "lChain.process"
            ELSE "updateHighCutFilter"
      [] p = "lChain.process"      -> "updateHighCutFilter"
      [] p = "updateHighCutFilter" ->
            IF who = "processBlock" THEN "rChain.process" ELSE "idle"
      [] p = "rChain.process"      -> "idle"

NextPc(p, who) ==
    CASE p = "getChainSettings"    -> "updateLowCutFilter"
      [] p = "updateLowCutFilter"  -> "updatePeakFilter"
      [] p = "updatePeakFilter"    -> "updateHighCutFilter"
      [] p = "updateHighCutFilter" ->
            IF who = "processBlock" THEN "lChain.process" ELSE "idle"
      [] p = "lChain.process"      -> "rChain.process"
      [] p = "rChain.process"      -> "idle"

(* The coefficient sets a sample meets on its way through a chain. *)
ActiveSets(chain, h) ==
    LET cutOf(cf) == [i \in StageIdx |->
                       IF cf.bypassed[i] THEN <<"bypassed">>
                       ELSE h[cf.filters[i].coefficients]]
    IN  <<cutOf(chain.LowCut), h[chain.Peak.coefficients], cutOf(chain.HighCut)>>

(* MonoChain::process on one channel block. *)
ProcessChannel(chain, h, samples) ==
    [k \in 1..Len(samples) |-> <<samples[k], ActiveSets(chain, h)>>]

----------------------------------------------------------------------------
(* Fifo<juce::AudioBuffer<float>>: Capacity blocks in an array, indexed by a
   juce::AbstractFifo of that size (validStart, validEnd). *)

Capacity == 30

(* enum Channel *)
Right == 0
Left == 1

Min(a, b) == IF a < b THEN a ELSE b

Zeros(n) == [k \in 1..n |-> 0]

NewFifo ==
    [buffers    |-> [i \in 0..(Capacity - 1) |-> <<>>],
     validStart |-> 0,
     validEnd   |-> 0]

(* AbstractFifo::getNumReady *)
getNumReady(vs, ve) ==
    IF ve >= vs THEN ve - vs ELSE Capacity - (vs - ve)

(* fifo.write(n): AbstractFifo::prepareToWrite, which keeps one slot free *)
prepareToWrite(vs, ve, numToWrite) ==
    LET freeSpace == IF ve >= vs THEN Capacity - (ve - vs) ELSE vs - ve
        n  == Min(numToWrite, freeSpace - 1)
        b1 == Min(Capacity - ve, n)
    IN  IF n <= 0
        THEN [startIndex1 |-> 0, blockSize1 |-> 0, blockSize2 |-> 0]
        ELSE [startIndex1 |-> ve, blockSize1 |-> b1,
              blockSize2 |-> IF n - b1 <= 0 THEN 0 ELSE Min(n - b1, vs)]

(* the end of the ScopedWrite: AbstractFifo::finishedWrite *)
finishedWrite(ve, numWritten) ==
    LET newEnd == ve + numWritten
    IN  IF newEnd >= Capacity THEN newEnd - Capacity ELSE newEnd

(* fifo.read(n): AbstractFifo::prepareToRead *)
prepareToRead(vs, ve, numWanted) ==
    LET n  == Min(numWanted, getNumReady(vs, ve))
        b1 == Min(Capacity - vs, n)
    IN  IF n <= 0
        THEN [startIndex1 |-> 0, blockSize1 |-> 0, blockSize2 |-> 0]
        ELSE [startIndex1 |-> vs, blockSize1 |-> b1,
              blockSize2 |-> IF n - b1 <= 0 THEN 0 ELSE Min(n - b1, ve)]

(* the end of the ScopedRead: AbstractFifo::finishedRead *)
finishedRead(vs, numRead) ==
    LET newStart == vs + numRead
    IN  IF newStart >= Capacity THEN newStart - Capacity ELSE newStart

(* Fifo::prepare(numChannels = 1, numSamples): every block sized and cleared;
   the AbstractFifo is left as it is. *)
FifoPrepare(q, numSamples) ==
    [q EXCEPT !.buffers = [i \in 0..(Capacity - 1) |-> Zeros(numSamples)]]

(* Fifo::push with the block stored whether or not a slot is free. *)
pushOverwriting(q, t) ==
    LET write == prepareToWrite(q.validStart, q.validEnd, 1)
    IN  IF write.blockSize1 > 0
        THEN [q  |-> [q EXCEPT
                        !.buffers[write.startIndex1] = t,
                        !.validEnd = finishedWrite(q.validEnd,
                                        write.blockSize1 + write.blockSize2)],
              ok |-> TRUE]
        ELSE [q  |-> [q EXCEPT !.buffers[write.startIndex1] = t],
              ok |-> FALSE]

(* Fifo::push(t); the ScopedWrite ends when push returns *)
push(q, t) ==
    LET write == prepareToWrite(q.validStart, q.validEnd, 1)
    IN  IF write.blockSize1 > 0
        THEN [q  |-> [q EXCEPT
                        !.buffers[write.startIndex1] = t,
                        !.validEnd = finishedWrite(q.validEnd,
                                        write.blockSize1 + write.blockSize2)],
              ok |-> TRUE]
        ELSE [q |-> q, ok |-> FALSE]

(* Fifo::pull taking the block pushed last instead of the oldest one. *)
pullNewest(q, t) ==
    LET read == prepareToRead(q.validStart, q.validEnd, 1)
    IN  IF read.blockSize1 > 0
        THEN [q  |-> [q EXCEPT
                        !.validStart = finishedRead(q.validStart,
                                          read.blockSize1 + read.blockSize2)],
              t  |-> q.buffers[(q.validEnd + Capacity - 1) % Capacity],
              ok |-> TRUE]
        ELSE [q |-> q, t |-> t, ok |-> FALSE]

(* Fifo::pull(t); the ScopedRead ends when pull returns *)
pull(q, t) ==
    LET read == prepareToRead(q.validStart, q.validEnd, 1)
    IN  IF read.blockSize1 > 0
        THEN [q  |-> [q EXCEPT
                        !.validStart = finishedRead(q.validStart,
                                          read.blockSize1 + read.blockSize2)],
              t  |-> q.buffers[read.startIndex1],
              ok |-> TRUE]
        ELSE [q |-> q, t |-> t, ok |-> FALSE]

(* Fifo::getNumAvailableForReading *)
getNumAvailableForReading(q) == getNumReady(q.validStart, q.validEnd)

----------------------------------------------------------------------------
(* SingleChannelSampleFifo<juce::AudioBuffer<float>> *)

NewSingleChannelSampleFifo(ch) ==
    [channelToUse    |-> ch,
     fifoIndex       |-> 0,
     audioBufferFifo |-> NewFifo,
     bufferToFill    |-> <<>>,
     prepared        |-> FALSE,
     size            |-> 0]

(* SingleChannelSampleFifo::prepare(bufferSize) *)
prepare(f, bufferSize) ==
    [f EXCEPT !.size = bufferSize,
              !.bufferToFill = Zeros(bufferSize),
              !.audioBufferFifo = FifoPrepare(f.audioBufferFifo, bufferSize),
              !.fifoIndex = 0,
              !.prepared = TRUE]

getNumCompleteBuffersAvailable(f) ==
    getNumAvailableForReading(f.audioBufferFifo)

(* bufferToFill.setSample(0, fifoIndex, sample) *)
setSample(block, index, sample) == [block EXCEPT ![index + 1] = sample]

(* What one Fifo::push did, and how the pushNextSampleIntoFifo(sample) that
   made it left the object `after`, for the observers below. *)
PushRecord(f, sample, r, after) ==
    [valid |-> TRUE, t |-> f.bufferToFill, ok |-> r.ok,
     ready |-> getNumAvailableForReading(f.audioBufferFifo),
     before |-> f.audioBufferFifo, after |-> r.q,
     sample |-> sample, fifoIndex |-> after.fifoIndex,
     first |-> after.bufferToFill[1]]

(* pushNextSampleIntoFifo keeping the filled block for a later push when the
   push fails, and dropping the sample. *)
pushNextSampleIntoFifoKeeping(f, sample) ==
    LET full == f.fifoIndex = Len(f.bufferToFill)
        r    == push(f.audioBufferFifo, f.bufferToFill)
        f1   == IF full
                THEN [f EXCEPT !.audioBufferFifo = r.q, !.fifoIndex = 0]
                ELSE f
        f2   == IF full /\ ~r.ok THEN f
                ELSE [f1 EXCEPT
                        !.bufferToFill =
                            setSample(f1.bufferToFill, f1.fifoIndex, sample),
                        !.fifoIndex = f1.fifoIndex + 1]
    IN  [f       |-> f2,
         attempt |-> IF full THEN <<PushRecord(f, sample, r, f2)>> ELSE <<>>,
         index   |-> f1.fifoIndex]

(* pushNextSampleIntoFifo with <= for == in its test of fifoIndex. *)
pushNextSampleIntoFifoEager(f, sample) ==
    LET full == f.fifoIndex <= Len(f.bufferToFill)
        r    == push(f.audioBufferFifo, f.bufferToFill)
        f1   == IF full
                THEN [f EXCEPT !.audioBufferFifo = r.q, !.fifoIndex = 0]
                ELSE f
        f2   == [f1 EXCEPT
                   !.bufferToFill =
                       setSample(f1.bufferToFill, f1.fifoIndex, sample),
                   !.fifoIndex = f1.fifoIndex + 1]
    IN  [f       |-> f2,
         attempt |-> IF full THEN <<PushRecord(f, sample, r, f2)>> ELSE <<>>,
         index   |-> f1.fifoIndex]

(* pushNextSampleIntoFifo with > for == in its test of fifoIndex. *)
pushNextSampleIntoFifoLate(f, sample) ==
    LET full == f.fifoIndex > Len(f.bufferToFill)
        r    == push(f.audioBufferFifo, f.bufferToFill)
        f1   == IF full
                THEN [f EXCEPT !.audioBufferFifo = r.q, !.fifoIndex = 0]
                ELSE f
        f2   == [f1 EXCEPT
                   !.bufferToFill =
                       setSample(f1.bufferToFill, f1.fifoIndex, sample),
                   !.fifoIndex = f1.fifoIndex + 1]
    IN  [f       |-> f2,
         attempt |-> IF full THEN <<PushRecord(f, sample, r, f2)>> ELSE <<>>,
         index   |-> f1.fifoIndex]

(* SingleChannelSampleFifo::pushNextSampleIntoFifo(sample): the new object,
   when it called Fifo::push the record of that call, and the index of
   bufferToFill its setSample wrote. *)
pushNextSampleIntoFifo(f, sample) ==
    LET full == f.fifoIndex = Len(f.bufferToFill)
        r    == push(f.audioBufferFifo, f.bufferToFill)
        f1   == IF full
                THEN [f EXCEPT !.audioBufferFifo = r.q, !.fifoIndex = 0]
                ELSE f
        f2   == [f1 EXCEPT
                   !.bufferToFill =
                       setSample(f1.bufferToFill, f1.fifoIndex, sample),
                   !.fifoIndex = f1.fifoIndex + 1]
    IN  [f       |-> f2,
         attempt |-> IF full THEN <<PushRecord(f, sample, r, f2)>> ELSE <<>>,
         index   |-> f1.fifoIndex]

(* SingleChannelSampleFifo::update(buffer): every sample of the channel
   channelToUse, in order. *)
RECURSIVE updateLoop(_, _, _, _)
updateLoop(f, channelPtr, i, attempts) ==
    IF i > Len(channelPtr)
    THEN [f |-> f, attempts |-> attempts]
    ELSE LET r == pushNextSampleIntoFifo(f, channelPtr[i])
         IN  updateLoop(r.f, channelPtr, i + 1, attempts \o r.attempt)

SingleChannelSampleFifo_update(f, b) == updateLoop(f, b[f.channelToUse + 1], 1, <<>>)

(* Nothing written: fifoIndex = 0 and no block handed to the Fifo yet. *)
NoFilling == [written |-> {}, indices |-> {}, handed |-> <<>>]

(* The same loop, watched: `written` are the indices of bufferToFill that
   setSample wrote since fifoIndex was last set to 0, `indices` all it wrote
   since prepare, `handed` what was written of each block when
   audioBufferFifo.push(bufferToFill) took it (the latest one is kept). *)
RECURSIVE Filled(_, _, _, _)
Filled(fill, f, channelPtr, i) ==
    IF i > Len(channelPtr)
    THEN fill
    ELSE LET r      == pushNextSampleIntoFifo(f, channelPtr[i])
             pushed == r.attempt # <<>>
         IN  Filled([written |-> (IF pushed THEN {} ELSE fill.written)
                                     \cup {r.index},
                     indices |-> fill.indices \cup {r.index},
                     handed  |-> IF pushed THEN <<fill.written>>
                                 ELSE fill.handed],
                    r.f, channelPtr, i + 1)

(* SingleChannelSampleFifo::getAudioBuffer(buf) *)
getAudioBuffer(f, b) ==
    LET r == pull(f.audioBufferFifo, b)
    IN  [f |-> [f EXCEPT !.audioBufferFifo = r.q], t |-> r.t, ok |-> r.ok]

(* The blocks the successful pushes among `attempts` add to the queue. *)
RECURSIVE Accepted(_)
Accepted(attempts) ==
    IF attempts = <<>> THEN <<>>
    ELSE (IF Head(attempts).ok THEN <<Head(attempts).t>> ELSE <<>>)
         \o Accepted(Tail(attempts))

NoPush == [valid |-> FALSE]
NoPull == [valid |-> FALSE]

IdleProducer == [pc |-> "idle", sample |-> 0, pushed |-> FALSE,
                 write |-> prepareToWrite(0, 0, 0), k |-> 0]
IdleConsumer == [pc |-> "idle", read |-> prepareToRead(0, 0, 0), k |-> 0]

----------------------------------------------------------------------------
(* The sample memory of the filters.  A juce::dsp::IIR::Filter keeps `order`
   state values; process() first compares its order with that of its
   coefficients and clears the state when they differ, then runs every sample
   through the difference equation, bypassed or not: a bypassed filter hands
   its input on unchanged but still stores it. *)

(* Coefficients::getFilterOrder: the pass-through set (1, 0, 1, 0) of a new
   Filter is first order, a peak set and a Butterworth section second order
   (the last section of an odd-order design first order). *)
getFilterOrder(c) ==
    CASE c = Unity   -> 1
      [] c[1] = "PK" -> 2
      [] OTHER       -> IF c[4] % 2 = 1 /\ c[5] = c[4] \div 2 THEN 1 ELSE 2

Cleared == <<>>

(* Filter::reset() *)
reset(c) == [order |-> getFilterOrder(c), state |-> Cleared]

(* Filter::check() clearing the state on every call. *)
checkResetting(f, c) == reset(c)

(* Filter::check() *)
check(f, c) == IF f.order # getFilterOrder(c) THEN reset(c) ELSE f

(* One sample through the difference equation: the state having stored the
   sample (the sample that stood at position x of the stream, stored under
   the coefficients c).  With the pass-through set the state stays zero. *)
filterStore(c, state, x) ==
    IF c = Unity THEN Cleared ELSE Append(state, <<c, x>>)

(* Filter::process on a block, after check(): the difference equation runs
   over every sample whether the context is bypassed or not. *)
RECURSIVE filterProcess(_, _, _, _)
filterProcess(f, c, x, k) ==
    IF k > Len(x) THEN f
    ELSE filterProcess([f EXCEPT !.state = filterStore(c, f.state, x[k])],
                       c, x, k + 1)

(* The nine filters of MonoChain c in processing order, and for each its
   bypass flag and its coefficients object. *)
StageOrder(c) ==
    <<<<c, "LowCut", 0>>, <<c, "LowCut", 1>>, <<c, "LowCut", 2>>,
      <<c, "LowCut", 3>>, <<c, "Peak", 0>>, <<c, "HighCut", 0>>,
      <<c, "HighCut", 1>>, <<c, "HighCut", 2>>, <<c, "HighCut", 3>>>>

isBypassed(chain, s) ==
    IF s[2] = "Peak" THEN FALSE ELSE chain[s[2]].bypassed[s[3]]

coefficientsOf(chain, s) ==
    IF s[2] = "Peak" THEN chain.Peak.coefficients
    ELSE chain[s[2]].filters[s[3]].coefficients

(* MonoChain::process(context): every filter in turn over the whole block;
   the samples that come out are those of ProcessChannel. *)
RECURSIVE chainProcess(_, _, _, _, _, _)
chainProcess(chain, h, mem, stages, k, x) ==
    IF k > Len(stages)
    THEN [mem |-> mem, out |-> ProcessChannel(chain, h, x)]
    ELSE LET s == stages[k]
             c == h[coefficientsOf(chain, s)]
         IN  chainProcess(chain, h,
                          [mem EXCEPT ![s] = filterProcess(check(mem[s], c),
                                                           c, x, 1)],
                          stages, k + 1, x)

(* MonoChain::prepare(spec): reset() of every filter. *)
chainPrepare(chain, h, mem, c) ==
    [s \in StageObjs |->
        IF s[1] = c THEN reset(h[coefficientsOf(chain, s)]) ELSE mem[s]]

(* getChainSettings(apvts) with nothing written during the call. *)
RECURSIVE loadFrom(_, _, _)
loadFrom(s, k, a) ==
    IF k > Len(ParamOrder) THEN s
    ELSE loadFrom(LoadParameter(s, k, a[ParamOrder[k]]), k + 1, a)

getChainSettings(a) == loadFrom(DefaultChainSettings, 1, a)

(* No updateFilters call in progress. *)
IdleCut ==
    [pc |-> "idle", pos |-> "LowCut", chain |-> "l", slope |-> slope12,
     stmt |-> 0, coefficients |-> <<>>, reads |-> {},
     before |-> [bypassed     |-> [i \in StageIdx |-> FALSE],
                 coefficients |-> [i \in StageIdx |-> Unity]]]

NoBlock ==
    [since        |-> 0,
     wasBypassed  |-> [s \in StageObjs |-> FALSE],
     carried      |-> [s \in StageObjs |-> Cleared],
     startedWith  |-> [s \in StageObjs |-> Cleared]]

----------------------------------------------------------------------------

(* juce::AudioChannelSet: a set of channel types. *)
ChannelTypes == {"left", "right", "centre", "LFE"}

ChannelSets == SUBSET ChannelTypes

mono == {"centre"}

stereo == {"left", "right"}

BusesLayouts == [in : ChannelSets, out : ChannelSets]

(* isBusesLayoutSupported built as a synth: the input is not compared. *)
isBusesLayoutSupportedSynth(l) ==
    IF l.out # mono /\ l.out # stereo THEN FALSE
    ELSE TRUE

(* isBusesLayoutSupported(layouts), neither a MIDI effect nor a synth *)
isBusesLayoutSupported(l) ==
    IF l.out # mono /\ l.out # stereo THEN FALSE
    ELSE IF l.out # l.in THEN FALSE
    ELSE TRUE

(* getTotalNumInputChannels, getTotalNumOutputChannels, and the channels of
   the buffer the host hands to processBlock. *)
getTotalNumInputChannels(l) == Cardinality(l.in)

getTotalNumOutputChannels(l) == Cardinality(l.out)

getNumChannels(l) ==
    IF getTotalNumInputChannels(l) > getTotalNumOutputChannels(l)
    THEN getTotalNumInputChannels(l) ELSE getTotalNumOutputChannels(l)

(* What a read of channel memory the buffer does not have may yield. *)
Garbage == -1

(* block.getSingleChannelBlock(i) of a buffer x of n samples a channel. *)
getSingleChannelBlock(x, i, n) ==
    IF i < Len(x) THEN x[i + 1] ELSE [k \in 1..n |-> Garbage]

(* The channel indices processBlock touches: those its clearing loop clears
   and the two it takes single-channel blocks of. *)
ChannelsTouched(l) ==
    (getTotalNumInputChannels(l)..(getTotalNumOutputChannels(l) - 1))
    \cup {0, 1}

(* How a processBlock that touched these channels of a buffer of numChannels
   may end: touching a channel the buffer lacks is undefined. *)
Outcomes(touched, numChannels) ==
    IF \A i \in touched : i < numChannels THEN {"returned"}
    ELSE {"returned", "crashed"}

HostInit ==
    /\ layouts = [in |-> stereo, out |-> stereo]
    /\ query = [valid |-> FALSE]
    /\ call = [numChannels |-> 0, accessed |-> {}, outcome |-> "none"]

BlockInit ==
    /\ memory = [s \in StageObjs |-> reset(Unity)]
    /\ blocks = 0
    /\ blockLog = [NoBlock EXCEPT !.since = -1]

ChainInit ==
    /\ apvts = createParameterLayout
    /\ writes = 0
    /\ sampleRate = 0
    /\ heap = [o \in ObjIds |-> IF o \in StageObjs THEN Unity ELSE Freed]
    /\ lChain = NewMonoChain("l")
    /\ rChain = NewMonoChain("r")
    /\ pc = "idle"
    /\ caller = "none"
    /\ readIdx = 1
    /\ chainSettings = DefaultChainSettings
    /\ buffer = <<<<>>, <<>>>>
    /\ trail = <<>>
    /\ inFlight = 0
    /\ lastCut = [p \in CutPositions |-> -1]
    /\ instants = {}
    /\ loads = NoLoads

FifoInit ==
    /\ leftChannelFifo = NewSingleChannelSampleFifo(Left)
    /\ rightChannelFifo = NewSingleChannelSampleFifo(Right)
    /\ clock = 0
    /\ pushes = 0
    /\ pulls = 0
    /\ received = [i \in {"left", "right"} |-> <<>>]
    /\ pending = <<>>
    /\ lastPush = NoPush
    /\ lastPull = NoPull
    /\ buf = <<>>
    /\ producer = IdleProducer
    /\ consumer = IdleConsumer

SideInit == BlockInit /\ HostInit /\ cut = IdleCut /\ filling = NoFilling

Init == ChainInit /\ FifoInit /\ SideInit /\ inst = "left"

(* The FIFO runs drive either of the two instances. *)
FifoRunInit == ChainInit /\ FifoInit /\ SideInit /\ inst \in {"left", "right"}

Chain(c) == IF c = "l" THEN lChain ELSE rChain

(* The coefficient objects and the two chains of the processor. *)
Members == [heap |-> heap, l |-> lChain, r |-> rChain]

(* The control thread stores a new value in one parameter. *)
SetParameter ==
    /\ writes < MaxWrites
    /\ \E p \in ParamIds : \E v \in ParamValues(p) \ {apvts[p]} :
          apvts' = [apvts EXCEPT ![p] = v]
    /\ writes' = writes + 1
    /\ UNCHANGED <<sampleRate, heap, lChain, rChain, pc, caller, readIdx,
                   chainSettings, buffer, trail, inFlight, lastCut, instants,
                   loads>>
    /\ UNCHANGED <<fifoVars, sideVars>>

(* prepareToPlay(sampleRate, samplesPerBlock) up to its call of
   updateFilters. *)
PrepareToPlay ==
    /\ pc = "idle"
    /\ \E sr \in SampleRates :
          /\ sampleRate \in {0, sr}      \* the host keeps its sample rate
          /\ sampleRate' = sr
    /\ pc' = "getChainSettings"
    /\ caller' = "prepareToPlay"
    /\ readIdx' = 1
    /\ chainSettings' = DefaultChainSettings
    /\ trail' = <<>>
    /\ UNCHANGED <<apvts, writes, heap, lChain, rChain, buffer, inFlight,
                   lastCut, instants, loads>>
    /\ UNCHANGED <<fifoVars, sideVars>>

(* processBlock up to its call of updateFilters; the clearing loop has
   nothing to clear when the input and output layouts agree. *)
ProcessBlock ==
    /\ pc = "idle"
    /\ sampleRate # 0
    /\ \E n \in 1..MaxBlockLen :
          buffer' = <<[k \in 1..n |-> k], [k \in 1..n |-> k]>>
    /\ pc' = "getChainSettings"
    /\ caller' = "processBlock"
    /\ readIdx' = 1
    /\ chainSettings' = DefaultChainSettings
    /\ trail' = <<>>
    /\ inFlight' = inFlight + 1
    /\ UNCHANGED <<apvts, writes, sampleRate, heap, lChain, rChain, lastCut,
                   instants, loads>>
    /\ UNCHANGED <<fifoVars, sideVars>>

(* One load of getChainSettings. *)
GetChainSettings ==
    /\ pc = "getChainSettings"
    /\ chainSettings' =
          LoadParameter(chainSettings, readIdx, apvts[ParamOrder[readIdx]])
    /\ IF readIdx = Len(ParamOrder)
       THEN /\ pc' = NextPc(pc, caller)
            /\ readIdx' = 1
            /\ trail' = Append(trail, pc)
       ELSE /\ readIdx' = readIdx + 1
            /\ UNCHANGED <<pc, trail>>
    /\ UNCHANGED <<apvts, writes, sampleRate, heap, lChain, rChain, caller,
                   buffer, inFlight, lastCut, instants, loads>>
    /\ UNCHANGED <<fifoVars, sideVars>>

UpdateLowCutFilter ==
    /\ pc = "updateLowCutFilter"
    /\ LET res == updateLowCutFilter(Members, chainSettings)
       IN  /\ heap' = res.heap
           /\ lChain' = res.l
           /\ rChain' = res.r
    /\ lastCut' = [lastCut EXCEPT !["LowCut"] = chainSettings.lowCutSlope]
    /\ pc' = NextPc(pc, caller)
    /\ trail' = Append(trail, pc)
    /\ UNCHANGED <<apvts, writes, sampleRate, caller, readIdx, chainSettings,
                   buffer, inFlight, instants, loads>>
    /\ UNCHANGED <<fifoVars, sideVars>>

UpdatePeakFilter ==
    /\ pc = "updatePeakFilter"
    /\ heap' = updatePeakFilter(Members, chainSettings).heap
    /\ pc' = NextPc(pc, caller)
    /\ trail' = Append(trail, pc)
    /\ UNCHANGED <<apvts, writes, sampleRate, lChain, rChain, caller, readIdx,
                   chainSettings, buffer, inFlight, lastCut, instants, loads>>
    /\ UNCHANGED <<fifoVars, sideVars>>

UpdateHighCutFilter ==
    /\ pc = "updateHighCutFilter"
    /\ LET res == updateHighCutFilter(Members, chainSettings)
       IN  /\ heap' = res.heap
           /\ lChain' = res.l
           /\ rChain' = res.r
    /\ lastCut' = [lastCut EXCEPT !["HighCut"] = chainSettings.highCutSlope]
    /\ pc' = NextPc(pc, caller)
    /\ trail' = Append(trail, pc)
    /\ chainSettings' = DefaultChainSettings   \* updateFilters returns
    /\ UNCHANGED <<apvts, writes, sampleRate, caller, readIdx, buffer, inFlight,
                   instants, loads>>
    /\ UNCHANGED <<fifoVars, sideVars>>

(* lChain.process(leftContext): channel 0 of the buffer, in place. *)
LChainProcess ==
    /\ pc = "lChain.process"
    /\ buffer' = [buffer EXCEPT ![1] = ProcessChannel(lChain, heap, buffer[1])]
    /\ pc' = NextPc(pc, caller)
    /\ trail' = Append(trail, pc)
    /\ UNCHANGED <<apvts, writes, sampleRate, heap, lChain, rChain, caller,
                   readIdx, chainSettings, inFlight, lastCut, instants, loads>>
    /\ UNCHANGED <<fifoVars, sideVars>>

(* rChain.process(rightContext): channel 1 of the buffer, in place; then
   processBlock returns. *)
RChainProcess ==
    /\ pc = "rChain.process"
    /\ buffer' = [buffer EXCEPT ![2] = ProcessChannel(rChain, heap, buffer[2])]
    /\ pc' = NextPc(pc, caller)
    /\ trail' = Append(trail, pc)
    /\ inFlight' = inFlight - 1
    /\ UNCHANGED <<apvts, writes, sampleRate, heap, lChain, rChain, caller,
                   readIdx, chainSettings, lastCut, instants, loads>>
    /\ UNCHANGED <<fifoVars, sideVars>>

Next ==
    \/ SetParameter
    \/ PrepareToPlay
    \/ ProcessBlock
    \/ GetChainSettings
    \/ UpdateLowCutFilter
    \/ UpdatePeakFilter
    \/ UpdateHighCutFilter
    \/ LChainProcess
    \/ RChainProcess

Spec == Init /\ [][Next]_vars

----------------------------------------------------------------------------
(* getChainSettings on its own, load by load, against the control thread:
   what each parameter held while the call ran, and what the call loaded. *)

(* The control thread stores a new value in one parameter. *)
ControlStore ==
    /\ writes < MaxWrites
    /\ \E p \in ParamIds : \E v \in ParamValues(p) \ {apvts[p]} :
          apvts' = [apvts EXCEPT ![p] = v]
    /\ writes' = writes + 1
    /\ instants' = IF pc = "getChainSettings" THEN instants \cup {apvts'}
                   ELSE instants
    /\ UNCHANGED <<sampleRate, heap, lChain, rChain, pc, caller, readIdx,
                   chainSettings, buffer, trail, inFlight, lastCut, loads>>
    /\ UNCHANGED <<fifoVars, sideVars>>

(* getChainSettings(apvts) is entered: ChainSettings settings; *)
GetChainSettingsEnter ==
    /\ pc = "idle"
    /\ pc' = "getChainSettings"
    /\ readIdx' = 1
    /\ chainSettings' = DefaultChainSettings
    /\ instants' = {apvts}
    /\ loads' = NoLoads
    /\ UNCHANGED <<apvts, writes, sampleRate, heap, lChain, rChain, caller,
                   buffer, trail, inFlight, lastCut>>
    /\ UNCHANGED <<fifoVars, sideVars>>

(* One load of getChainSettings; after the seventh, return settings. *)
Load ==
    /\ pc = "getChainSettings"
    /\ chainSettings' =
          LoadParameter(chainSettings, readIdx, apvts[ParamOrder[readIdx]])
    /\ loads' = [loads EXCEPT ![ParamOrder[readIdx]] = @ + 1]
    /\ IF readIdx = Len(ParamOrder)
       THEN /\ pc' = "return settings"
            /\ readIdx' = 1
       ELSE /\ readIdx' = readIdx + 1
            /\ UNCHANGED pc
    /\ UNCHANGED <<apvts, writes, sampleRate, heap, lChain, rChain, caller,
                   buffer, trail, inFlight, lastCut, instants>>
    /\ UNCHANGED <<fifoVars, sideVars>>

(* The caller has the ChainSettings and is done with it. *)
GetChainSettingsReturn ==
    /\ pc = "return settings"
    /\ pc' = "idle"
    /\ chainSettings' = DefaultChainSettings
    /\ instants' = {}
    /\ loads' = NoLoads
    /\ UNCHANGED <<apvts, writes, sampleRate, heap, lChain, rChain, caller,
                   readIdx, buffer, trail, inFlight, lastCut>>
    /\ UNCHANGED <<fifoVars, sideVars>>

SettingsNext ==
    \/ ControlStore
    \/ GetChainSettingsEnter
    \/ Load
    \/ GetChainSettingsReturn

SpecSettings == Init /\ [][SettingsNext]_vars

----------------------------------------------------------------------------
(* The analyser FIFO on its own: one SingleChannelSampleFifo, prepared once,
   fed by update() and drained by getAudioBuffer(), each call running to its
   end before the next one starts. *)

MaxBlockSize == 2
MaxPushes == 33

TheFifo == IF inst = "left" THEN leftChannelFifo ELSE rightChannelFifo

SetTheFifo(f) ==
    /\ leftChannelFifo' = IF inst = "left" THEN f ELSE leftChannelFifo
    /\ rightChannelFifo' = IF inst = "right" THEN f ELSE rightChannelFifo

(* The caller's two-channel buffer of n samples: channel c carries the
   samples 2 * (clock + k) + c, so every sample is told from every other. *)
HostBuffer(n) ==
    <<[k \in 1..n |-> 2 * (clock + k)], [k \in 1..n |-> 2 * (clock + k) + 1]>>

Prepare ==
    /\ ~TheFifo.prepared
    /\ \E bufferSize \in 1..MaxBlockSize :
          SetTheFifo(prepare(TheFifo, bufferSize))
    /\ filling' = NoFilling
    /\ UNCHANGED <<inst, clock, pushes, pulls, received, pending, lastPush,
                   lastPull, buf, producer, consumer>>
    /\ UNCHANGED <<chainVars, blockVars, hostVars, cut>>

Update ==
    /\ TheFifo.prepared
    /\ \E n \in 1..MaxBlockLen :
          \E b \in {HostBuffer(n)} :
          \E r \in {SingleChannelSampleFifo_update(TheFifo, b)} :
              /\ pushes + Len(r.attempts) <= MaxPushes
              /\ SetTheFifo(r.f)
              /\ received' = [received EXCEPT
                    ![inst] = @ \o b[TheFifo.channelToUse + 1]]
              /\ pending' = pending \o Accepted(r.attempts)
              /\ lastPush' = IF r.attempts = <<>> THEN NoPush
                             ELSE r.attempts[Len(r.attempts)]
              /\ pushes' = pushes + Len(r.attempts)
              /\ clock' = clock + n
              /\ filling' = Filled(filling, TheFifo,
                                   b[TheFifo.channelToUse + 1], 1)
    /\ lastPull' = NoPull
    /\ UNCHANGED <<inst, pulls, buf, producer, consumer>>
    /\ UNCHANGED <<chainVars, blockVars, hostVars, cut>>

GetAudioBuffer ==
    /\ LET r == getAudioBuffer(TheFifo, buf)
       IN  /\ SetTheFifo(r.f)
           /\ buf' = r.t
           /\ lastPull' =
                 [valid |-> TRUE, ok |-> r.ok,
                  before |-> TheFifo.audioBufferFifo,
                  after |-> r.f.audioBufferFifo,
                  bufBefore |-> buf, got |-> r.t,
                  queued |-> pending]
           /\ pending' = IF r.ok /\ pending # <<>> THEN Tail(pending)
                         ELSE pending
           /\ pulls' = IF r.ok THEN pulls + 1 ELSE pulls
    /\ lastPush' = NoPush
    /\ UNCHANGED <<inst, clock, pushes, received, producer, consumer>>
    /\ UNCHANGED <<chainVars, sideVars>>

FifoNext ==
    \/ Prepare
    \/ Update
    \/ GetAudioBuffer

SpecFifo ==
    /\ FifoRunInit
    /\ [][FifoNext]_vars


----------------------------------------------------------------------------
(* The analyser FIFO with its two contexts running at once: the audio context
   inside pushNextSampleIntoFifo and the control context inside Fifo::pull,
   each advancing one memory access at a time.  A block is copied sample by
   sample; validStart and validEnd are atomics. *)

(* The order of the effects of Fifo::push and of Fifo::pull: the ScopedWrite
   and the ScopedRead are named locals, so they end (finishedWrite,
   finishedRead) when the function returns, after the copy. *)
pushStepsEarlyFinish == <<"write", "finishedWrite", "copy">>

pushSteps == <<"write", "copy", "finishedWrite">>

pullSteps == <<"read", "copy", "finishedRead">>

StepAfter(steps, cur, last) ==
    LET i == CHOOSE j \in 1..Len(steps) : steps[j] = cur
    IN  IF i = Len(steps) THEN last ELSE steps[i + 1]

Resized(block, n) == IF Len(block) = n THEN block ELSE Zeros(n)

(* pushNextSampleIntoFifo(sample) is entered: the test of fifoIndex. *)
PEnter ==
    /\ producer.pc = "idle"
    /\ TheFifo.prepared
    /\ IF TheFifo.fifoIndex = Len(TheFifo.bufferToFill)
       THEN /\ pushes < MaxPushes
            /\ producer' = [IdleProducer EXCEPT
                              !.pc = pushSteps[1],
                              !.sample = 2 * (clock + 1) + TheFifo.channelToUse,
                              !.pushed = TRUE]
            /\ pushes' = pushes + 1
       ELSE /\ producer' = [IdleProducer EXCEPT
                              !.pc = "setSample",
                              !.sample = 2 * (clock + 1) + TheFifo.channelToUse]
            /\ UNCHANGED pushes
    /\ UNCHANGED <<leftChannelFifo, rightChannelFifo, inst, clock, pulls,
                   received, pending, lastPush, lastPull, buf, consumer>>
    /\ UNCHANGED <<chainVars, sideVars>>

(* auto write = fifo.write(1), and the test of write.blockSize1 *)
PWrite ==
    /\ producer.pc = "write"
    /\ LET q == TheFifo.audioBufferFifo
           w == prepareToWrite(q.validStart, q.validEnd, 1)
       IN  IF w.blockSize1 > 0
           THEN producer' = [producer EXCEPT
                               !.write = w, !.k = 1,
                               !.pc = StepAfter(pushSteps, "write",
                                                "setSample")]
           ELSE producer' = [producer EXCEPT !.pc = "setSample"]
    /\ UNCHANGED lastPush
    /\ UNCHANGED <<leftChannelFifo, rightChannelFifo, inst, clock, pushes,
                   pulls, received, pending, lastPull, buf, consumer>>
    /\ UNCHANGED <<chainVars, sideVars>>

(* buffers[write.startIndex1] = t, one sample *)
PCopy ==
    /\ producer.pc = "copy"
    /\ LET f == TheFifo
           i == producer.write.startIndex1
           k == producer.k
           slot == Resized(f.audioBufferFifo.buffers[i], Len(f.bufferToFill))
       IN  /\ SetTheFifo([f EXCEPT !.audioBufferFifo.buffers[i] =
                                      [slot EXCEPT ![k] = f.bufferToFill[k]]])
           /\ producer' =
                 IF k = Len(f.bufferToFill)
                 THEN [producer EXCEPT
                         !.pc = StepAfter(pushSteps, "copy", "setSample")]
                 ELSE [producer EXCEPT !.k = k + 1]
    /\ UNCHANGED <<inst, clock, pushes, pulls, received, pending, lastPush,
                   lastPull, buf, consumer>>
    /\ UNCHANGED <<chainVars, sideVars>>

(* the ScopedWrite ends: finishedWrite stores validEnd, and the block counts
   as pushed from here on *)
PFinishedWrite ==
    /\ producer.pc = "finishedWrite"
    /\ LET f == TheFifo
           w == producer.write
       IN  /\ SetTheFifo([f EXCEPT !.audioBufferFifo.validEnd =
                             finishedWrite(f.audioBufferFifo.validEnd,
                                           w.blockSize1 + w.blockSize2)])
           /\ pending' = Append(pending, f.bufferToFill)
    /\ producer' = [producer EXCEPT
                      !.pc = StepAfter(pushSteps, "finishedWrite", "setSample")]
    /\ UNCHANGED <<inst, clock, pushes, pulls, received, lastPush, lastPull,
                   buf, consumer>>
    /\ UNCHANGED <<chainVars, sideVars>>

(* fifoIndex = 0 after a push; bufferToFill.setSample(0, fifoIndex, sample);
   fifoIndex++ *)
PSetSample ==
    /\ producer.pc = "setSample"
    /\ LET f  == TheFifo
           ix == IF producer.pushed THEN 0 ELSE f.fifoIndex
       IN  SetTheFifo([f EXCEPT
                         !.bufferToFill =
                             setSample(f.bufferToFill, ix, producer.sample),
                         !.fifoIndex = ix + 1])
    /\ received' = [received EXCEPT ![inst] = Append(@, producer.sample)]
    /\ clock' = clock + 1
    /\ producer' = IdleProducer
    /\ UNCHANGED <<inst, pushes, pulls, pending, lastPush, lastPull, buf,
                   consumer>>
    /\ UNCHANGED <<chainVars, sideVars>>

(* auto read = fifo.read(1), and the test of read.blockSize1 *)
CRead ==
    /\ consumer.pc = "idle"
    /\ TheFifo.prepared
    /\ LET q == TheFifo.audioBufferFifo
           r == prepareToRead(q.validStart, q.validEnd, 1)
       IN  IF r.blockSize1 > 0
           THEN consumer' = [consumer EXCEPT
                               !.read = r, !.k = 1,
                               !.pc = StepAfter(pullSteps, "read", "idle")]
           ELSE UNCHANGED consumer      \* pull returns false
    /\ UNCHANGED <<leftChannelFifo, rightChannelFifo, inst, clock, pushes,
                   pulls, received, pending, lastPush, lastPull, buf,
                   producer>>
    /\ UNCHANGED <<chainVars, sideVars>>

(* t = buffers[read.startIndex1], one sample *)
CCopy ==
    /\ consumer.pc = "copy"
    /\ LET slot == TheFifo.audioBufferFifo.buffers[consumer.read.startIndex1]
           k    == consumer.k
           t    == Resized(buf, Len(slot))
       IN  /\ buf' = [t EXCEPT ![k] = slot[k]]
           /\ consumer' =
                 IF k = Len(slot)
                 THEN [consumer EXCEPT
                         !.pc = StepAfter(pullSteps, "copy", "idle")]
                 ELSE [consumer EXCEPT !.k = k + 1]
    /\ UNCHANGED <<leftChannelFifo, rightChannelFifo, inst, clock, pushes,
                   pulls, received, pending, lastPush, lastPull, producer>>
    /\ UNCHANGED <<chainVars, sideVars>>

(* the ScopedRead ends: finishedRead stores validStart, and pull returns
   true *)
CFinishedRead ==
    /\ consumer.pc = "finishedRead"
    /\ LET f == TheFifo
           r == consumer.read
       IN  SetTheFifo([f EXCEPT !.audioBufferFifo.validStart =
                          finishedRead(f.audioBufferFifo.validStart,
                                       r.blockSize1 + r.blockSize2)])
    /\ lastPull' = [valid |-> TRUE, ok |-> TRUE, got |-> buf,
                    expected |-> IF pending = <<>> THEN <<>>
                                 ELSE Head(pending)]
    /\ pending' = IF pending = <<>> THEN pending ELSE Tail(pending)
    /\ pulls' = pulls + 1
    /\ consumer' = [IdleConsumer EXCEPT
                      !.pc = StepAfter(pullSteps, "finishedRead", "idle")]
    /\ UNCHANGED <<inst, clock, pushes, received, lastPush, buf, producer>>
    /\ UNCHANGED <<chainVars, sideVars>>

SPSCNext ==
    \/ Prepare
    \/ PEnter
    \/ PWrite
    \/ PCopy
    \/ PFinishedWrite
    \/ PSetSample
    \/ CRead
    \/ CCopy
    \/ CFinishedRead

SpecSPSC ==
    /\ FifoRunInit
    /\ [][SPSCNext]_vars


----------------------------------------------------------------------------
(* The chains block by block: every call of prepareToPlay and of processBlock
   runs to its end before the control thread writes again, and the filters
   keep their sample memory from one block to the next. *)

MaxChanges == 3
MaxBlocks == 3

(* The parameters the control thread moves in these runs. *)
CutParams == {"Low-Cut Slope", "High-Cut Slope"}

ControlWrite ==
    /\ writes < MaxChanges
    /\ \E p \in CutParams : \E v \in ParamValues(p) \ {apvts[p]} :
          apvts' = [apvts EXCEPT ![p] = v]
    /\ writes' = writes + 1
    /\ UNCHANGED <<sampleRate, heap, lChain, rChain, pc, caller, readIdx,
                   chainSettings, buffer, trail, inFlight, lastCut, instants,
                   loads>>
    /\ UNCHANGED <<fifoVars, sideVars>>

(* The host fixes the sample rate (setRateAndBufferSizeDetails) before it
   calls prepareToPlay. *)
SetRateAndBufferSizeDetails ==
    /\ sampleRate = 0
    /\ \E sr \in SampleRates : sampleRate' = sr
    /\ UNCHANGED <<apvts, writes, heap, lChain, rChain, pc, caller, readIdx,
                   chainSettings, buffer, trail, inFlight, lastCut, instants,
                   loads>>
    /\ UNCHANGED <<fifoVars, sideVars>>

(* prepareToPlay: lChain.prepare, rChain.prepare, updateFilters. *)
PrepareToPlayCall ==
    /\ sampleRate # 0
    /\ blocks = 0                     \* the host prepares, then it plays
    /\ LET settings == getChainSettings(apvts)
           res == updateFilters(Members, settings)
       IN  /\ memory' = chainPrepare(rChain, heap,
                            chainPrepare(lChain, heap, memory, "l"), "r")
           /\ heap' = res.heap
           /\ lChain' = res.l
           /\ rChain' = res.r
           /\ lastCut' = [LowCut  |-> settings.lowCutSlope,
                          HighCut |-> settings.highCutSlope]
    /\ caller' = "prepareToPlay"
    /\ blockLog' = NoBlock
    /\ UNCHANGED <<apvts, writes, sampleRate, pc, readIdx, chainSettings,
                   buffer, trail, inFlight, instants, loads, blocks>>
    /\ UNCHANGED <<fifoVars, hostVars, cut, filling>>

(* The host's buffer for the next block: one channel per channel of the
   layout in force, n samples a channel, each sample named by its position in
   the stream; then the clearing loop of processBlock. *)
BlockInput(l, n) ==
    [c \in 1..getNumChannels(l) |->
        IF c - 1 \in getTotalNumInputChannels(l)
                        ..(getTotalNumOutputChannels(l) - 1)
        THEN Zeros(n)
        ELSE [k \in 1..n |-> blocks * MaxBlockLen + k]]

(* processBlock: the clearing loop, updateFilters, lChain.process on channel
   0, rChain.process on channel 1. *)
ProcessBlockCall ==
    /\ blockLog.since >= 0
    /\ blocks < MaxBlocks
    /\ call.outcome # "crashed"
    /\ \E n \in {MaxBlockLen} :
        \E x \in {BlockInput(layouts, n)} :
        \E res \in {updateFilters(Members, getChainSettings(apvts))} :
        \E pl \in {chainProcess(res.l, res.heap, memory, StageOrder("l"), 1,
                                getSingleChannelBlock(x, 0, n))} :
        \E pr \in {chainProcess(res.r, res.heap, pl.mem, StageOrder("r"), 1,
                                getSingleChannelBlock(x, 1, n))} :
        \E outcome \in Outcomes(ChannelsTouched(layouts), Len(x)) :
          LET settings == getChainSettings(apvts)
          IN  /\ heap' = res.heap
              /\ lChain' = res.l
              /\ rChain' = res.r
              /\ lastCut' = [LowCut  |-> settings.lowCutSlope,
                             HighCut |-> settings.highCutSlope]
              /\ buffer' = [c \in 1..Len(x) |->
                              CASE c = 1 -> pl.out
                                [] c = 2 -> pr.out
                                [] OTHER -> x[c]]
              /\ memory' = IF outcome = "crashed" THEN pl.mem ELSE pr.mem
              /\ call' = [numChannels |-> Len(x),
                          accessed    |-> ChannelsTouched(layouts),
                          outcome     |-> outcome]
              /\ blockLog' =
                    [since       |-> blockLog.since + 1,
                     wasBypassed |-> [s \in StageObjs |->
                                        isBypassed(Chain(s[1]), s)],
                     carried     |-> [s \in StageObjs |-> memory[s].state],
                     startedWith |-> [s \in StageObjs |->
                         check(memory[s],
                               res.heap[coefficientsOf(Chain(s[1]), s)]).state]]
    /\ caller' = "processBlock"
    /\ blocks' = blocks + 1
    /\ UNCHANGED <<apvts, writes, sampleRate, pc, readIdx, chainSettings,
                   trail, inFlight, instants, loads>>
    /\ UNCHANGED <<fifoVars, layouts, query, cut, filling>>

BlocksNext ==
    \/ ControlWrite
    \/ SetRateAndBufferSizeDetails
    \/ PrepareToPlayCall
    \/ ProcessBlockCall

SpecBlocks == Init /\ [][BlocksNext]_vars

----------------------------------------------------------------------------
(* updateFilters statement by statement: UpdateCutFilter is run one
   setBypassed / update<Index> at a time, on the left chain and then on the
   right one, for the low cut and then for the high cut, with the control
   thread writing in between. *)

CutKind(pos) == IF pos = "LowCut" THEN "HP" ELSE "LP"

CutFrequency(settings, pos) ==
    IF pos = "LowCut" THEN settings.lowCutFrequency
    ELSE settings.highCutFrequency

CutSlope(settings, pos) ==
    IF pos = "LowCut" THEN settings.lowCutSlope ELSE settings.highCutSlope

(* What the CutFilter `chain` holds when UpdateCutFilter is entered. *)
Before(cf, h) ==
    [bypassed     |-> cf.bypassed,
     coefficients |-> [i \in StageIdx |-> h[cf.filters[i].coefficients]]]

SetCutFilter(c, pos, cf) ==
    /\ lChain' = IF c = "l" THEN [lChain EXCEPT ![pos] = cf] ELSE lChain
    /\ rChain' = IF c = "r" THEN [rChain EXCEPT ![pos] = cf] ELSE rChain

(* updateFilters is entered: auto chainSettings = getChainSettings(apvts). *)
UpdateFiltersEnter ==
    /\ cut.pc = "idle"
    /\ sampleRate # 0
    /\ chainSettings' = getChainSettings(apvts)
    /\ cut' = [IdleCut EXCEPT !.pc = "design", !.pos = "LowCut"]
    /\ UNCHANGED <<apvts, writes, sampleRate, heap, lChain, rChain, pc, caller,
                   readIdx, buffer, trail, inFlight, lastCut, instants, loads>>
    /\ UNCHANGED <<fifoVars, blockVars, hostVars, filling>>

(* updateLowCutFilter / updateHighCutFilter up to the first UpdateCutFilter:
   the factory call and the references to the two cut filters. *)
DesignCut ==
    /\ cut.pc = "design"
    /\ LET slope == CutSlope(chainSettings, cut.pos)
           arr   == designCut(CutKind(cut.pos),
                              CutFrequency(chainSettings, cut.pos), slope)
       IN  /\ heap' = Allocate(heap, arr)
           /\ cut' = [cut EXCEPT
                        !.pc = "body", !.chain = "l", !.slope = slope,
                        !.stmt = 1, !.coefficients = HandlesOf(arr),
                        !.reads = {},
                        !.before = Before(lChain[cut.pos], heap)]
    /\ UNCHANGED <<apvts, writes, sampleRate, lChain, rChain, pc, caller,
                   readIdx, chainSettings, buffer, trail, inFlight, lastCut,
                   instants, loads>>
    /\ UNCHANGED <<fifoVars, blockVars, hostVars, filling>>

CutNextStmt(c, stmt) ==
    IF stmt > Len(UpdateCutFilterBody)
    THEN [c EXCEPT !.pc = "return", !.stmt = 0]
    ELSE [c EXCEPT !.stmt = stmt]

(* chain.setBypassed<Index>(true) *)
SetBypassedTrue ==
    /\ cut.pc = "body"
    /\ UpdateCutFilterBody[cut.stmt].op = "setBypassed"
    /\ LET cf == Chain(cut.chain)[cut.pos]
           Index == UpdateCutFilterBody[cut.stmt].Index
       IN  SetCutFilter(cut.chain, cut.pos,
                        [cf EXCEPT !.bypassed[Index] = TRUE])
    /\ cut' = CutNextStmt(cut, cut.stmt + 1)
    /\ UNCHANGED <<apvts, writes, sampleRate, heap, pc, caller, readIdx,
                   chainSettings, buffer, trail, inFlight, lastCut, instants,
                   loads>>
    /\ UNCHANGED <<fifoVars, blockVars, hostVars, filling>>

(* switch (slope) *)
Switch ==
    /\ cut.pc = "body"
    /\ UpdateCutFilterBody[cut.stmt].op = "switch"
    /\ cut' = CutNextStmt(cut, caseLabel(UpdateCutFilterBody, cut.slope))
    /\ UNCHANGED <<apvts, writes, sampleRate, heap, lChain, rChain, pc, caller,
                   readIdx, chainSettings, buffer, trail, inFlight, lastCut,
                   instants, loads>>
    /\ UNCHANGED <<fifoVars, blockVars, hostVars, filling>>

(* update<Index>(chain, coefficients); reading coefficients[Index] past the
   end of the array is undefined, the stage then holds whatever was read. *)
UpdateIndex ==
    /\ cut.pc = "body"
    /\ UpdateCutFilterBody[cut.stmt].op = "update"
    /\ LET cf == Chain(cut.chain)[cut.pos]
           Index == UpdateCutFilterBody[cut.stmt].Index
       IN  /\ IF Index \in DOMAIN cut.coefficients
              THEN LET st == update(Index, [chain |-> cf, heap |-> heap],
                                    cut.coefficients)
                   IN  /\ SetCutFilter(cut.chain, cut.pos, st.chain)
                       /\ heap' = st.heap
              ELSE /\ SetCutFilter(cut.chain, cut.pos,
                                   [cf EXCEPT !.bypassed[Index] = FALSE])
                   /\ heap' = [heap EXCEPT
                                 ![cf.filters[Index].coefficients] =
                                     <<"garbage">>]
           /\ cut' = [CutNextStmt(cut, cut.stmt + 1) EXCEPT
                        !.reads = cut.reads \cup {Index}]
    /\ UNCHANGED <<apvts, writes, sampleRate, pc, caller, readIdx,
                   chainSettings, buffer, trail, inFlight, lastCut, instants,
                   loads>>
    /\ UNCHANGED <<fifoVars, blockVars, hostVars, filling>>

(* UpdateCutFilter returns: to the call for the right chain, or out of
   updateLowCutFilter / updateHighCutFilter, whose array is released. *)
CutReturn ==
    /\ cut.pc = "return"
    /\ IF cut.chain = "l"
       THEN /\ cut' = [cut EXCEPT
                         !.pc = "body", !.chain = "r", !.stmt = 1,
                         !.reads = {},
                         !.before = Before(rChain[cut.pos], heap)]
            /\ UNCHANGED <<heap, lastCut, chainSettings>>
       ELSE /\ heap' = Release(heap)
            /\ lastCut' = [lastCut EXCEPT ![cut.pos] = cut.slope]
            /\ IF cut.pos = "LowCut"
               THEN /\ cut' = [IdleCut EXCEPT !.pc = "peak"]
                    /\ UNCHANGED chainSettings
               ELSE /\ cut' = IdleCut
                    /\ chainSettings' = DefaultChainSettings
    /\ UNCHANGED <<apvts, writes, sampleRate, lChain, rChain, pc, caller,
                   readIdx, buffer, trail, inFlight, instants, loads>>
    /\ UNCHANGED <<fifoVars, blockVars, hostVars, filling>>

(* updatePeakFilter(chainSettings) *)
PeakStep ==
    /\ cut.pc = "peak"
    /\ heap' = updatePeakFilter(Members, chainSettings).heap
    /\ cut' = [IdleCut EXCEPT !.pc = "design", !.pos = "HighCut"]
    /\ UNCHANGED <<apvts, writes, sampleRate, lChain, rChain, pc, caller,
                   readIdx, chainSettings, buffer, trail, inFlight, lastCut,
                   instants, loads>>
    /\ UNCHANGED <<fifoVars, blockVars, hostVars, filling>>

CutNext ==
    \/ ControlWrite
    \/ SetRateAndBufferSizeDetails
    \/ UpdateFiltersEnter
    \/ DesignCut
    \/ SetBypassedTrue
    \/ Switch
    \/ UpdateIndex
    \/ CutReturn
    \/ PeakStep

SpecCut == Init /\ [][CutNext]_vars

----------------------------------------------------------------------------
(* The host settling the bus layout before it prepares and plays. *)

(* The host asks whether a layout is supported. *)
IsBusesLayoutSupported ==
    /\ call.outcome # "crashed"
    /\ \E l \in BusesLayouts :
          query' = [valid |-> TRUE, layouts |-> l,
                    result |-> isBusesLayoutSupported(l)]
    /\ UNCHANGED <<chainVars, fifoVars, blockVars, layouts, call, cut,
                   filling>>

(* AudioProcessor::setBusesLayout: a layout isBusesLayoutSupported accepts is
   put in force; the host does this while the processor is not prepared. *)
SetBusesLayout ==
    /\ blockLog.since = -1
    /\ \E l \in BusesLayouts :
          /\ isBusesLayoutSupported(l)
          /\ layouts' = l
    /\ UNCHANGED <<chainVars, fifoVars, blockVars, query, call, cut,
                   filling>>

HostNext ==
    \/ IsBusesLayoutSupported
    \/ SetBusesLayout
    \/ SetRateAndBufferSizeDetails
    \/ PrepareToPlayCall
    \/ ProcessBlockCall

SpecHost == Init /\ [][HostNext]_vars

----------------------------------------------------------------------------
(* The filter chains. *)

(* The stages of a cut filter that are not bypassed. *)
ActiveStages(cf) == {i \in StageIdx : ~cf.bypassed[i]}

(* The coefficient objects the stages of both chains hold. *)
Held ==
    UNION {{Chain(c).LowCut.filters[i].coefficients : i \in StageIdx}
           \cup {Chain(c).HighCut.filters[i].coefficients : i \in StageIdx}
           \cup {Chain(c).Peak.coefficients} : c \in ChainNames}

UpdatePhase ==
    <<"getChainSettings", "updateLowCutFilter", "updatePeakFilter",
      "updateHighCutFilter">>

ProcessPhase == <<"lChain.process", "rChain.process">>

(* C1: after UpdateCutFilter(chain, coefficients, slope) returns, whatever
   the bypass flags were before, stage i is active exactly when
   i <= slope, so slope + 1 of the four stages are active. *)
C1_ActiveStagesMatchSlope ==
    \A p \in CutPositions : \A c \in ChainNames :
        lastCut[p] # -1 =>
            /\ ActiveStages(Chain(c)[p]) = 0..lastCut[p]
            /\ Cardinality(ActiveStages(Chain(c)[p])) = lastCut[p] + 1

C1_Witness ==
    /\ lastCut["LowCut"] = slope24
    /\ lastCut["HighCut"] = slope12
    /\ heap[lChain.LowCut.filters[3].coefficients] # Unity
    /\ pc = "idle"

(* C2: replacing the coefficients of a stage never changes the coefficient
   set the stage held before the replacement: the object behind the old
   handle keeps its content. *)
C2_OldSetUntouched ==
    [][\A o \in Held : heap'[o] = heap[o]]_vars

(* C3: in every processBlock the whole Update phase (the settings, then the
   low-cut, peak and high-cut of both chains) is over before either chain
   processes a sample, and no two calls overlap. *)
C3_UpdateBeforeProcess ==
    /\ inFlight <= 1
    /\ (inFlight = 1) = (pc # "idle" /\ caller = "processBlock")
    /\ pc \in {"lChain.process", "rChain.process"} =>
          /\ Len(trail) >= Len(UpdatePhase)
          /\ SubSeq(trail, 1, Len(UpdatePhase)) = UpdatePhase
    /\ (pc = "idle" /\ caller = "processBlock") =>
          trail = UpdatePhase \o ProcessPhase

C3_Witness ==
    /\ pc = "rChain.process"
    /\ writes = MaxWrites
    /\ trail = UpdatePhase \o <<"lChain.process">>

(* C4: when processBlock returns, the left SampleFifo has been given the
   samples lChain produced for this block, and the right one those of rChain,
   in order. *)
C4_ProcessedSamplesReachFifo ==
    (pc = "idle" /\ caller = "processBlock") =>
        LET l == received["left"]
            r == received["right"]
            n == Len(buffer[1])
        IN  /\ Len(l) >= n
            /\ SubSeq(l, Len(l) - n + 1, Len(l)) = buffer[1]
            /\ Len(r) >= n
            /\ SubSeq(r, Len(r) - n + 1, Len(r)) = buffer[2]

(* The settings as a vector of parameter values. *)
Snapshot(s) == [p \in ParamIds |-> FieldOf(s, p)]

(* C11: getChainSettings loads each of the seven parameters exactly once, in
   its own atomic load: every field it has filled holds a value its parameter
   held at some instant since the call began, whatever the control thread
   wrote in between.  (That the fields together need not be the parameters of
   any one instant is what C11_Witness reaches.) *)
C11_IndependentAtomicLoads ==
    /\ pc = "getChainSettings" =>
          \A k \in 1..Len(ParamOrder) :
              loads[ParamOrder[k]] = IF k < readIdx THEN 1 ELSE 0
    /\ pc = "return settings" => \A p \in ParamIds : loads[p] = 1
    /\ pc \in {"getChainSettings", "return settings"} =>
          \A p \in ParamIds :
              loads[p] = 1 =>
                  FieldOf(chainSettings, p) \in {a[p] : a \in instants}

C11_Witness ==
    /\ pc = "return settings"
    /\ Cardinality(instants) = 3
    /\ Snapshot(chainSettings) \notin instants
    /\ chainSettings.lowCutSlope # apvts["Low-Cut Slope"]
    /\ chainSettings.peakGainInDB = apvts["Peak Gain"]
    /\ chainSettings.peakGainInDB # createParameterLayout["Peak Gain"]

(* The bypass flag and the coefficient set of every stage of a chain. *)
StageConfig(chain, h) ==
    LET cutOf(cf) == [i \in StageIdx |->
                       [bypassed     |-> cf.bypassed[i],
                        coefficients |-> h[cf.filters[i].coefficients]]]
    IN  [LowCut  |-> cutOf(chain.LowCut),
         Peak    |-> [coefficients |-> h[chain.Peak.coefficients]],
         HighCut |-> cutOf(chain.HighCut)]

Configuration(st) ==
    [l |-> StageConfig(st.l, st.heap), r |-> StageConfig(st.r, st.heap)]

(* The channel blocks the chains are given. *)
TestSignals == {[k \in 1..n |-> k] : n \in 1..MaxBlockLen}

(* C12: with the parameters unchanged, updateFilters run a second time with
   the ChainSettings of the first leaves both chains as the first run left
   them: the same bypass flag and the same coefficient set in every stage,
   and so the same output for the same input. *)
C12_UpdateFiltersIdempotent ==
    pc = "updateHighCutFilter" =>
        LET once  == updateHighCutFilter(Members, chainSettings)
            twice == updateFilters(once, chainSettings)
        IN  /\ Configuration(twice) = Configuration(once)
            /\ \A x \in TestSignals :
                  /\ ProcessChannel(twice.l, twice.heap, x)
                        = ProcessChannel(once.l, once.heap, x)
                  /\ ProcessChannel(twice.r, twice.heap, x)
                        = ProcessChannel(once.r, once.heap, x)

C12_Witness ==
    /\ pc = "updateHighCutFilter"
    /\ chainSettings.lowCutSlope = slope12
    /\ lChain.LowCut.bypassed[1]
    /\ heap[lChain.LowCut.filters[1].coefficients] # Unity
    /\ heap[lChain.LowCut.filters[0].coefficients]
          = designHighOrderButterworth("HP", chainSettings.lowCutFrequency,
                                       sampleRate, 2)[0]

(* C13: a slope change between two blocks keeps the sample history of every
   stage that was active in the block before and is active in the block
   after: such a stage starts the new block with exactly the history it ended
   the old one with, its coefficients replaced or not. *)
C13_ActiveStageKeepsHistory ==
    blockLog.since >= 2 =>
        \A s \in StageObjs :
            (~blockLog.wasBypassed[s] /\ ~isBypassed(Chain(s[1]), s)) =>
                blockLog.startedWith[s] = blockLog.carried[s]

C13_Witness ==
    LET s0 == <<"l", "LowCut", 0>>
        s1 == <<"l", "LowCut", 1>>
        h  == memory[s0].state
    IN  /\ blockLog.since >= 2
        /\ lastCut["LowCut"] = slope24
        /\ blockLog.wasBypassed[s1]
        /\ ~isBypassed(lChain, s1)
        /\ blockLog.carried[s0] # Cleared
        /\ blockLog.startedWith[s0] = blockLog.carried[s0]
        /\ h[Len(h)][1] # blockLog.carried[s0][1][1]

(* C14: a stage that was bypassed in the block before and is active in the
   block after starts the new block with a cleared history. *)
C14_NewStageStartsCleared ==
    blockLog.since >= 2 =>
        \A s \in StageObjs :
            (blockLog.wasBypassed[s] /\ ~isBypassed(Chain(s[1]), s)) =>
                blockLog.startedWith[s] = Cleared

(* C15: isBusesLayoutSupported answers true exactly for the layouts whose
   main output set is mono or stereo and whose main input set equals the
   main output set. *)
C15_SupportedLayouts ==
    /\ query.valid =>
          (query.result <=>
              /\ query.layouts.out \in {mono, stereo}
              /\ query.layouts.in = query.layouts.out)
    /\ layouts.out \in {mono, stereo}
    /\ layouts.in = layouts.out

C15_Witness ==
    /\ query.valid
    /\ query.result
    /\ query.layouts = [in |-> mono, out |-> mono]
    /\ layouts = [in |-> mono, out |-> mono]

(* The CutFilter the UpdateCutFilter call in progress works on. *)
CutFilterInHand == Chain(cut.chain)[cut.pos]

(* The bypass-all phase of the call in progress is over: the next statement
   is the switch or an update<Index>, or the call is about to return. *)
BypassAllDone ==
    \/ cut.pc = "return"
    \/ /\ cut.pc = "body"
       /\ UpdateCutFilterBody[cut.stmt].op # "setBypassed"

(* C16: in UpdateCutFilter the four setBypassed(true) come before any
   update<Index>: from the end of the bypass-all phase until the call
   returns, no stage above the slope is active, and the active stages are
   stages update<Index> has already given their coefficients. *)
C16_NoStageAboveSlopeActive ==
    BypassAllDone =>
        /\ \A i \in StageIdx : i > cut.slope => CutFilterInHand.bypassed[i]
        /\ ActiveStages(CutFilterInHand) = cut.reads

C16_Witness ==
    /\ cut.pc = "body"
    /\ UpdateCutFilterBody[cut.stmt] = [op |-> "update", Index |-> 0]
    /\ cut.chain = "r"
    /\ cut.slope = slope12
    /\ ~cut.before.bypassed[1]
    /\ cut.before.coefficients[1] # Unity
    /\ CutFilterInHand.bypassed[0]

(* C17: the sequence designed for a slope has order 2 * (slope + 1), that is
   slope + 1 second-order sets; UpdateCutFilter reads coefficients[i] for
   exactly the i in 0..slope, never an index outside the sequence, stage i
   ends up with set i, and the stages above the slope keep the coefficients
   they had. *)
C17_CoefficientIndices ==
    cut.pc \in {"body", "return"} =>
        /\ DOMAIN cut.coefficients = 0..cut.slope
        /\ \A i \in DOMAIN cut.coefficients :
              /\ heap[cut.coefficients[i]][4] = 2 * (cut.slope + 1)
              /\ heap[cut.coefficients[i]][5] = i
              /\ getFilterOrder(heap[cut.coefficients[i]]) = 2
        /\ cut.reads \subseteq DOMAIN cut.coefficients
        /\ cut.pc = "return" =>
              /\ cut.reads = 0..cut.slope
              /\ \A i \in StageIdx :
                    heap[CutFilterInHand.filters[i].coefficients] =
                        IF i <= cut.slope THEN heap[cut.coefficients[i]]
                        ELSE cut.before.coefficients[i]

C17_Witness ==
    /\ cut.pc = "return"
    /\ cut.pos = "HighCut"
    /\ cut.chain = "r"
    /\ cut.slope = slope24
    /\ cut.before.coefficients[3] # Unity
    /\ cut.before.coefficients[1] # heap[cut.coefficients[1]]

(* C19: whenever an updateFilters has run to its end, the left and the right
   chain are configured alike: the same bypass flag and the same coefficient
   set in each of their nine stages, whatever the control thread wrote while
   the call was running. *)
C19_ChainsAlike ==
    (caller # "none" /\ pc \in {"lChain.process", "rChain.process", "idle"}) =>
        StageConfig(lChain, heap) = StageConfig(rChain, heap)

C19_Witness ==
    /\ pc = "lChain.process"
    /\ writes = MaxWrites
    /\ lastCut["LowCut"] = slope12
    /\ apvts["Low-Cut Slope"] = slope24
    /\ lastCut["HighCut"] = slope36
    /\ ~rChain.HighCut.bypassed[2]
    /\ heap[rChain.HighCut.filters[2].coefficients] # Unity
    /\ StageConfig(rChain, heap) # StageConfig(NewMonoChain("r"),
                                               [o \in ObjIds |-> Unity])

(* C20: under every layout isBusesLayoutSupported accepts, every channel
   index processBlock touches is below the channel count of the buffer it
   was given. *)
C20_ChannelsInRange ==
    call.outcome # "none" =>
        \A i \in call.accessed : i < call.numChannels

----------------------------------------------------------------------------
(* The analyser FIFO: what the consumer can see. *)

(* The readable slots of the ring, oldest first. *)
Readable(q) ==
    [j \in 1..getNumAvailableForReading(q) |->
        q.buffers[(q.validStart + j - 1) % Capacity]]

(* C5: from a freshly prepared SingleChannelSampleFifo of block size B and
   with no pull made, once exactly k * B samples have been fed (k = 1, 2, ...
   up to the capacity of the queue) getNumCompleteBuffersAvailable() is k;
   in particular it is 1 after exactly B samples. *)
C5_OneBlockPerBlockSize ==
    (TheFifo.prepared /\ pulls = 0) =>
        \A k \in 1..Capacity :
            clock = k * TheFifo.size =>
                getNumCompleteBuffersAvailable(TheFifo) = k

(* C5 as amended: from a freshly prepared SingleChannelSampleFifo of block
   size B and with no pull made, a filled block is handed to the queue only
   when the next sample arrives: after exactly k * B samples k - 1 blocks are
   available (none after exactly B), and after k * B + 1 samples k are, for
   every k the queue has room for. *)
C5_BlockAvailableOnNextSample ==
    (TheFifo.prepared /\ pulls = 0) =>
        \A k \in 1..(Capacity - 1) :
            /\ clock = k * TheFifo.size =>
                  getNumCompleteBuffersAvailable(TheFifo) = k - 1
            /\ clock = k * TheFifo.size + 1 =>
                  getNumCompleteBuffersAvailable(TheFifo) = k

C5_Witness ==
    /\ TheFifo.prepared
    /\ pulls = 0
    /\ TheFifo.size = 2
    /\ clock = 2 * TheFifo.size
    /\ getNumCompleteBuffersAvailable(TheFifo) = 1

(* C6: from a freshly prepared SingleChannelSampleFifo of block size B, as
   long as fewer than B samples have been fed, no complete block is available
   and getAudioBuffer fails, leaving the caller's block as it was. *)
C6_NoPartialBlock ==
    (TheFifo.prepared /\ clock < TheFifo.size) =>
        /\ getNumCompleteBuffersAvailable(TheFifo) = 0
        /\ lastPull.valid =>
              (~lastPull.ok /\ lastPull.got = lastPull.bufBefore)

C6_Witness ==
    /\ TheFifo.prepared
    /\ TheFifo.size = 2
    /\ clock = 1
    /\ lastPull.valid
    /\ ~lastPull.ok

(* C7: Fifo::push succeeds whenever fewer than 30 pushed blocks are
   unconsumed and fails exactly when 30 are. *)
C7_ThirtyBlocks ==
    lastPush.valid => (lastPush.ok <=> lastPush.ready < 30)

(* C8: a Fifo::push that finds the queue full returns false and leaves the
   queue as it was: the same number of available blocks, the same stored
   blocks in the same order, the oldest one not overwritten. *)
C8_FullPushIsNoOp ==
    (lastPush.valid /\ ~lastPush.ok) =>
        /\ lastPush.after = lastPush.before
        /\ Readable(lastPush.after) = Readable(lastPush.before)
        /\ Readable(TheFifo.audioBufferFifo) = pending

C8_Witness ==
    /\ lastPush.valid
    /\ ~lastPush.ok
    /\ lastPush.ready > 0

(* C9: the blocks successful pulls return are the blocks of the successful
   pushes, in the order pushed, each once; a pull from an empty queue returns
   false and changes neither the queue nor the caller's block. *)
C9_FifoOrder ==
    /\ Readable(TheFifo.audioBufferFifo) = pending
    /\ lastPull.valid =>
          IF lastPull.queued # <<>>
          THEN /\ lastPull.ok
               /\ lastPull.got = Head(lastPull.queued)
               /\ pending = Tail(lastPull.queued)
          ELSE /\ ~lastPull.ok
               /\ lastPull.after = lastPull.before
               /\ lastPull.got = lastPull.bufBefore

C9_Witness ==
    /\ lastPull.valid
    /\ lastPull.ok
    /\ Len(lastPull.queued) >= 2
    /\ lastPull.before.validStart > lastPull.before.validEnd

(* C18: a full queue never holds the producer up.  The
   pushNextSampleIntoFifo whose Fifo::push fails still returns, with the
   queue as it was (the filled block is dropped, not kept for a retry) and
   with filling restarted: the sample it was given stands at position 0 and
   fifoIndex is 1.  A push fails only on a full queue, so the next filled
   block is accepted as soon as the consumer has taken a block out. *)
C18_FullFifoNeverStalls ==
    /\ (TheFifo.prepared /\ pushes + MaxBlockLen <= MaxPushes) =>
          ENABLED Update
    /\ lastPush.valid =>
          /\ lastPush.ok <=> lastPush.ready < Capacity - 1
          /\ lastPush.fifoIndex = 1
          /\ lastPush.first = lastPush.sample
          /\ ~lastPush.ok =>
                /\ lastPush.after = lastPush.before
                /\ Readable(TheFifo.audioBufferFifo) = pending
                /\ \A j \in 1..Len(pending) : pending[j] # lastPush.t

C18_Witness ==
    /\ lastPush.valid
    /\ lastPush.ok
    /\ pulls = 1
    /\ pushes = Len(pending) + pulls + 1
    /\ lastPush.ready = Capacity - 2
    /\ TheFifo.size = 2

(* The slots of the ring the consumer may read. *)
ReadableSlots(q) ==
    {(q.validStart + j - 1) % Capacity :
        j \in 1..getNumAvailableForReading(q)}

(* C10: with one producer and one consumer running at once the consumer sees
   complete blocks only: every readable slot holds the whole of a pushed
   block, the producer never writes into a readable slot, and every block a
   pull returns is, in full, the oldest block pushed and not yet pulled. *)
C10_CompleteBlocksOnly ==
    /\ Readable(TheFifo.audioBufferFifo) = pending
    /\ producer.pc = "copy" =>
          producer.write.startIndex1
              \notin ReadableSlots(TheFifo.audioBufferFifo)
    /\ consumer.pc \in {"copy", "finishedRead"} =>
          consumer.read.startIndex1 \in ReadableSlots(TheFifo.audioBufferFifo)
    /\ lastPull.valid =>
          (lastPull.expected # <<>> /\ lastPull.got = lastPull.expected)

C10_Witness ==
    /\ TheFifo.size = 2
    /\ producer.pc = "copy"
    /\ producer.k = 2
    /\ consumer.pc = "copy"
    /\ consumer.k = 2
    /\ lastPull.valid
    /\ TheFifo.audioBufferFifo.validEnd < TheFifo.audioBufferFifo.validStart
    /\ getNumCompleteBuffersAvailable(TheFifo) = Capacity - 2

(* C21: once prepared with a block size B >= 1, between the calls fifoIndex
   is within 0..B, every index of bufferToFill that pushNextSampleIntoFifo
   wrote is below B, the indices written since fifoIndex was last 0 are
   exactly those below fifoIndex, and a block was handed to the Fifo only
   with all its B positions written since then. *)
C21_FifoIndexInRange ==
    TheFifo.prepared =>
        LET B == Len(TheFifo.bufferToFill)
        IN  /\ B >= 1
            /\ TheFifo.fifoIndex \in 0..B
            /\ filling.indices \subseteq 0..(B - 1)
            /\ filling.written = 0..(TheFifo.fifoIndex - 1)
            /\ \A k \in 1..Len(filling.handed) :
                   filling.handed[k] = 0..(B - 1)
            /\ lastPush.valid => filling.handed # <<>>

C21_Witness ==
    /\ TheFifo.prepared
    /\ Len(TheFifo.bufferToFill) = MaxBlockSize
    /\ pushes >= 2
    /\ lastPush.valid
    /\ filling.handed = <<0..(MaxBlockSize - 1)>>
    /\ filling.indices = 0..(MaxBlockSize - 1)
    /\ TheFifo.fifoIndex = 1
    /\ filling.written = {0}

====
